---- MODULE Spec2Model ----
(***************************************************************************)
(* SmartFi: the financial computation engine (valuation, history          *)
(* reconstruction, performance analytics) and the budget provider that    *)
(* feeds it (optimistic local state, the remote store, refreshData).      *)
(*                                                                         *)
(* Money is counted in whole units and the USD->COP rate is a whole       *)
(* number.  Time is counted in ticks since PROJECT_START_DATE (tick 0,    *)
(* a UTC midnight); a day is TicksPerDay ticks.  The browser's time zone  *)
(* is tz ticks east of UTC.                                                *)
(***************************************************************************)
EXTENDS Integers, Sequences, FiniteSets, TLC

VARIABLES
    data,       \* App state `data`: accounts, groups, transactions, settings
    now,        \* the clock read by `new Date()`
    tz,         \* local time = UTC + tz
    view,       \* what the Dashboard has computed: pc and the metrics memo
    chart,      \* the locals of the chartData memo while it runs
    perf,       \* PerformancePage: timeRange, dimension, filterId and the stats memo
    conv,       \* the last convertValue call: its arguments and what it returned
    user,       \* App state `user`
    store,      \* the remote tables: accounts, groups, transactions (rows in insert order)
    inflight,   \* store requests sent and not yet answered, with what awaits them
    refreshes,  \* refreshData calls whose fetchAll is running: what each has read
    applied,    \* history: for each addTransaction applied, the balance it found
    ids,        \* next fresh account, transaction and group id; handler calls so far
    premiumModalOpen,
    rateFetch   \* fetchUSDRate: calls made, calls awaiting an answer, how each ended

memoVars == <<now, tz, view, chart, perf, conv>>
appVars == <<user, store, inflight, refreshes, applied, ids, premiumModalOpen, rateFetch>>
vars == <<data, now, tz, view, chart, perf, conv, appVars>>

(***************************************************************************)
(* Bounds of the model.                                                    *)
(***************************************************************************)
MaxAccounts == 2
MaxTxs == 2
MaxNow == 4
MaxGroups == 3
MaxOps == 2

(***************************************************************************)
(* Program constants and value domains.                                    *)
(***************************************************************************)
TicksPerDay == 2
DaysPerMonth == 30
DaysPerYear == 365
PROJECT_START_DATE == 0
Undefined == -1

Rates == {2, 3}
TimeZones == {-1, 0, 1}

Max(a, b) == IF a >= b THEN a ELSE b
Abs(a) == IF a < 0 THEN -a ELSE a
CeilDiv(a, b) == (a + b - 1) \div b
Truthy(n) == n # Undefined /\ n # 0

(***************************************************************************)
(* Currency converter.  A COP->USD conversion is a quotient, kept as the  *)
(* pair of its operands.                                                   *)
(***************************************************************************)
Quot(n, d) == [num |-> n, den |-> d]

convertValueNoIdentity(val, from, to) ==
    IF from = "USD" THEN val * data.settings.usdToCopRate
    ELSE IF from = to THEN val
    ELSE Quot(val, data.settings.usdToCopRate)

convertValueInitialRate(val, from, to) ==
    IF from = to THEN val
    ELSE IF from = "USD" THEN val * 4
    ELSE Quot(val, 4)

convertValue(val, from, to) ==
    IF from = to THEN val
    ELSE IF from = "USD" THEN val * data.settings.usdToCopRate
    ELSE Quot(val, data.settings.usdToCopRate)

Currencies == {"COP", "USD"}
Values == {0, 1, 5}

convIdle == [val |-> 0, from |-> "COP", to |-> "COP", result |-> 0]

\* A consumer of the budget context calls convertValue(val, from, to).
ConvertValue ==
    /\ \E val \in Values, from \in Currencies, to \in Currencies :
          conv' = [val |-> val, from |-> from, to |-> to,
                   result |-> convertValue(val, from, to)]
    /\ UNCHANGED <<data, now, tz, view, chart, perf, appVars>>

(***************************************************************************)
(* Valuation aggregator: Dashboard.metrics.                                *)
(***************************************************************************)
metricsZero ==
    [totalAssets |-> 0, totalLiabilities |-> 0, liquidity |-> 0, creditLimitTotal |-> 0]

metricsStepAllAssets(m, acc) ==
    LET valInCop == convertValue(acc.balance, acc.currency, "COP")
    IN [m EXCEPT !.totalAssets = @ + valInCop, !.liquidity = @ + valInCop]

metricsStep(m, acc) ==
    LET valInCop == convertValue(acc.balance, acc.currency, "COP")
    IN IF acc.type = "CREDIT"
       THEN [m EXCEPT !.totalLiabilities = @ + valInCop,
                      !.creditLimitTotal = @ + (IF Truthy(acc.creditLimit)
                                                THEN convertValue(acc.creditLimit, acc.currency, "COP")
                                                ELSE 0)]
       ELSE [m EXCEPT !.totalAssets = @ + valInCop, !.liquidity = @ + valInCop]

RECURSIVE metricsFold(_, _)
metricsFold(m, accs) ==
    IF accs = <<>> THEN m ELSE metricsFold(metricsStep(m, Head(accs)), Tail(accs))

metricsReturnSum(m) ==
    [totalAssets |-> m.totalAssets,
     totalLiabilities |-> m.totalLiabilities,
     netWorth |-> m.totalAssets + m.totalLiabilities,
     liquidity |-> m.liquidity,
     buyingPower |-> m.liquidity + (m.creditLimitTotal - m.totalLiabilities),
     creditLimitTotal |-> m.creditLimitTotal]

metricsReturnNoLimit(m) ==
    [totalAssets |-> m.totalAssets,
     totalLiabilities |-> m.totalLiabilities,
     netWorth |-> m.totalAssets - m.totalLiabilities,
     liquidity |-> m.liquidity,
     buyingPower |-> m.liquidity - m.totalLiabilities,
     creditLimitTotal |-> m.creditLimitTotal]

metricsReturn(m) ==
    [totalAssets |-> m.totalAssets,
     totalLiabilities |-> m.totalLiabilities,
     netWorth |-> m.totalAssets - m.totalLiabilities,
     liquidity |-> m.liquidity,
     buyingPower |-> m.liquidity + (m.creditLimitTotal - m.totalLiabilities),
     creditLimitTotal |-> m.creditLimitTotal]

metrics == metricsReturn(metricsFold(metricsZero, data.accounts))

(***************************************************************************)
(* Ledger reconstructor: Dashboard.chartData, one action per loop step.    *)
(***************************************************************************)
getTime(tx) == tx.date

RECURSIVE insertByDateDesc(_, _)
insertByDateDesc(s, tx) ==
    IF s = <<>> THEN <<tx>>
    ELSE IF getTime(Head(s)) >= getTime(tx)
         THEN <<Head(s)>> \o insertByDateDesc(Tail(s), tx)
         ELSE <<tx>> \o s

RECURSIVE sortByDateDesc(_, _)
sortByDateDesc(sorted, txs) ==
    IF txs = <<>> THEN sorted
    ELSE sortByDateDesc(insertByDateDesc(sorted, Head(txs)), Tail(txs))

sortedTxsUnsorted(txs) == txs

sortedTxsOf(txs) == sortByDateDesc(<<>>, txs)

diffDaysOf(t) == Max(1, CeilDiv(Abs(t - PROJECT_START_DATE), TicksPerDay))

\* new Date(now.getFullYear(), now.getMonth(), now.getDate() - i).getTime():
\* the local midnight i days before the local day of `now`, as a UTC instant.
dayStartOf(t, i) == (((t + tz) \div TicksPerDay) - i) * TicksPerDay - tz

findAccount(accs, id) ==
    IF \E k \in 1..Len(accs) : accs[k].id = id
    THEN <<accs[CHOOSE k \in 1..Len(accs) :
                 accs[k].id = id /\ \A j \in 1..(k - 1) : accs[j].id # id]>>
    ELSE <<>>

\* acc?.type === AccountType.CREDIT
isCreditTx(tx) ==
    LET acc == findAccount(data.accounts, tx.accountId)
    IN acc # <<>> /\ acc[1].type = "CREDIT"

amountCOP(tx) ==
    IF tx.exchangeRateUsed # 0 THEN tx.amount * tx.exchangeRateUsed ELSE tx.amount

chartIdle ==
    [pc |-> "idle", i |-> 0, txIdx |-> 0, curLiq |-> 0, curLiabilities |-> 0,
     curLimit |-> 0, sortedTxs |-> <<>>, diffDays |-> 0, points |-> <<>>]

whileCondStrict(c) ==
    /\ c.txIdx < Len(c.sortedTxs)
    /\ getTime(c.sortedTxs[c.txIdx + 1]) > dayStartOf(now, c.i)

whileCond(c) ==
    /\ c.txIdx < Len(c.sortedTxs)
    /\ getTime(c.sortedTxs[c.txIdx + 1]) >= dayStartOf(now, c.i)

whileBody(c) ==
    LET tx == c.sortedTxs[c.txIdx + 1]
    IN IF isCreditTx(tx)
       THEN [c EXCEPT !.curLiabilities = @ - amountCOP(tx), !.txIdx = @ + 1]
       ELSE [c EXCEPT !.curLiq = @ - amountCOP(tx), !.txIdx = @ + 1]

pointOfNoLimit(c) ==
    [date |-> dayStartOf(now, c.i),
     netWorth |-> c.curLiq - c.curLiabilities,
     liquidity |-> c.curLiq,
     buyingPower |-> c.curLiq - c.curLiabilities]

pointOf(c) ==
    [date |-> dayStartOf(now, c.i),
     netWorth |-> c.curLiq - c.curLiabilities,
     liquidity |-> c.curLiq,
     buyingPower |-> c.curLiq + (c.curLimit - c.curLiabilities)]

pushPoint(c) == [c EXCEPT !.points = @ \o <<pointOf(c)>>, !.i = @ + 1]

unshiftPoint(c) == [c EXCEPT !.points = <<pointOf(c)>> \o @, !.i = @ + 1]

chartStart ==
    [pc |-> "loop", i |-> 0, txIdx |-> 0,
     curLiq |-> metrics.liquidity,
     curLiabilities |-> metrics.totalLiabilities,
     curLimit |-> metrics.creditLimitTotal,
     sortedTxs |-> sortedTxsOf(data.transactions),
     diffDays |-> diffDaysOf(now),
     points |-> <<>>]

ChartBegin ==
    /\ chart.pc = "idle"
    /\ chart' = chartStart
    /\ UNCHANGED <<data, now, tz, view, perf, conv, appVars>>

ChartWhile ==
    /\ chart.pc = "loop"
    /\ chart.i < chart.diffDays
    /\ whileCond(chart)
    /\ chart' = whileBody(chart)
    /\ UNCHANGED <<data, now, tz, view, perf, conv, appVars>>

ChartUnshift ==
    /\ chart.pc = "loop"
    /\ chart.i < chart.diffDays
    /\ ~whileCond(chart)
    /\ chart' = unshiftPoint(chart)
    /\ UNCHANGED <<data, now, tz, view, perf, conv, appVars>>

ChartReturn ==
    /\ chart.pc = "loop"
    /\ chart.i >= chart.diffDays
    /\ chart' = [chart EXCEPT !.pc = "done"]
    /\ UNCHANGED <<data, now, tz, view, perf, conv, appVars>>

(***************************************************************************)
(* Performance analytics: PerformancePage.stats.  Ratios and powers are    *)
(* kept as the operands the code divides and raises; `divisors` lists the  *)
(* denominators of the divisions the run performed.                        *)
(***************************************************************************)
inScopeAccsOf ==
    IF perf.dimension = "GROUP" /\ perf.filterId # "ALL"
    THEN SelectSeq(data.accounts, LAMBDA a : a.groupId = perf.filterId)
    ELSE IF perf.dimension = "CATEGORY" /\ perf.filterId # "ALL"
         THEN SelectSeq(data.accounts, LAMBDA a : a.category = perf.filterId)
         ELSE data.accounts

rangeTxsUnscoped(inScopeAccs) == data.transactions

rangeTxsOf(inScopeAccs) ==
    SelectSeq(data.transactions,
              LAMBDA t : \E k \in 1..Len(inScopeAccs) : inScopeAccs[k].id = t.accountId)

startDateOf(timeRange) ==
    CASE timeRange = "1M" -> now - 1 * DaysPerMonth * TicksPerDay
      [] timeRange = "3M" -> now - 3 * DaysPerMonth * TicksPerDay
      [] timeRange = "6M" -> now - 6 * DaysPerMonth * TicksPerDay
      [] timeRange = "1Y" -> now - DaysPerYear * TicksPerDay
      [] OTHER -> PROJECT_START_DATE

RECURSIVE insertByDateAsc(_, _)
insertByDateAsc(s, tx) ==
    IF s = <<>> THEN <<tx>>
    ELSE IF getTime(Head(s)) <= getTime(tx)
         THEN <<Head(s)>> \o insertByDateAsc(Tail(s), tx)
         ELSE <<tx>> \o s

RECURSIVE sortByDateAsc(_, _)
sortByDateAsc(sorted, txs) ==
    IF txs = <<>> THEN sorted
    ELSE sortByDateAsc(insertByDateAsc(sorted, Head(txs)), Tail(txs))

timelyTxsOf(rangeTxs, startDate) ==
    sortByDateAsc(<<>>, SelectSeq(rangeTxs, LAMBDA t : getTime(t) >= startDate))

RECURSIVE currentValOf(_, _)
currentValOf(sum, accs) ==
    IF accs = <<>> THEN sum
    ELSE LET acc == Head(accs)
             v == convertValue(acc.balance, acc.currency, "COP")
         IN currentValOf(IF acc.type = "CREDIT" THEN sum - v ELSE sum + v, Tail(accs))

RECURSIVE startValOf(_, _)
startValOf(startVal, txs) ==
    IF txs = <<>> THEN startVal
    ELSE startValOf(startVal - amountCOP(Head(txs)), Tail(txs))

Zero == Quot(0, 1)
One == Quot(1, 1)
NoGrowth == [zero |-> TRUE, base |-> One, exponent |-> One]

statsEarly(currentVal) ==
    [ea |-> NoGrowth, normal |-> Zero, projections |-> <<>>, currentVal |-> currentVal,
     inferred |-> FALSE, startVal |-> 0, divisors |-> {}]

returnsUnguarded(currentVal, startVal, diffMs) ==
    LET years == Quot(diffMs, DaysPerYear * TicksPerDay)
        exponent == IF years.num # 0 THEN Quot(years.den, years.num) ELSE One
        ea == [zero |-> FALSE, base |-> Quot(currentVal, startVal), exponent |-> exponent]
    IN [ea |-> ea,
        normal |-> Quot((currentVal - startVal) * 100, startVal),
        projections |-> [k \in 1..3 |->
                            [months |-> <<3, 6, 12>>[k], endVal |-> currentVal, growth |-> ea]],
        currentVal |-> currentVal,
        inferred |-> TRUE,
        startVal |-> startVal,
        divisors |-> {startVal, years.den} \cup (IF years.num # 0 THEN {years.num} ELSE {1})]

\* normal = startVal !== 0 ? endVal / startVal - 1 : 0, returned times 100;
\* ea = startVal !== 0 ? pow(endVal / startVal, 1 / (years || 1)) - 1 : 0.
returnsOf(currentVal, startVal, diffMs) ==
    LET years == Quot(diffMs, DaysPerYear * TicksPerDay)
        exponent == IF years.num # 0 THEN Quot(years.den, years.num) ELSE One
        ea == IF startVal # 0
              THEN [zero |-> FALSE, base |-> Quot(currentVal, startVal), exponent |-> exponent]
              ELSE NoGrowth
    IN [ea |-> ea,
        normal |-> IF startVal # 0 THEN Quot((currentVal - startVal) * 100, startVal) ELSE Zero,
        projections |-> [k \in 1..3 |->
                            [months |-> <<3, 6, 12>>[k], endVal |-> currentVal, growth |-> ea]],
        currentVal |-> currentVal,
        inferred |-> TRUE,
        startVal |-> startVal,
        divisors |-> (IF startVal # 0 THEN {startVal} ELSE {})
                     \cup {years.den} \cup (IF years.num # 0 THEN {years.num} ELSE {1})]

stats ==
    LET inScopeAccs == inScopeAccsOf
        rangeTxs == rangeTxsOf(inScopeAccs)
        startDate == startDateOf(perf.timeRange)
        timelyTxs == timelyTxsOf(rangeTxs, startDate)
        currentVal == currentValOf(0, inScopeAccs)
    IN IF Len(rangeTxs) = 0 /\ Len(inScopeAccs) = 0 THEN statsEarly(0)
       ELSE IF Len(timelyTxs) < 1 THEN statsEarly(currentVal)
       ELSE returnsOf(currentVal, startValOf(currentVal, timelyTxs), now - startDate)

perfIdle ==
    [timeRange |-> "ALL", dimension |-> "GENERAL", filterId |-> "ALL",
     pc |-> "stale", stats |-> statsEarly(0)]

\* The selectors of the PerformancePage; choosing a dimension resets the
\* filter.  A set state equal to the current one renders nothing.
setTimeRange(timeRange) ==
    /\ timeRange # perf.timeRange
    /\ perf' = [perf EXCEPT !.timeRange = timeRange, !.pc = "stale"]
    /\ UNCHANGED <<data, now, tz, view, chart, conv, appVars>>

setDimension(dimension) ==
    /\ <<dimension, "ALL">> # <<perf.dimension, perf.filterId>>
    /\ perf' = [perf EXCEPT !.dimension = dimension, !.filterId = "ALL", !.pc = "stale"]
    /\ UNCHANGED <<data, now, tz, view, chart, conv, appVars>>

setFilterId(filterId) ==
    /\ filterId # perf.filterId
    /\ perf' = [perf EXCEPT !.filterId = filterId, !.pc = "stale"]
    /\ UNCHANGED <<data, now, tz, view, chart, conv, appVars>>

PerformanceStats ==
    /\ perf.pc = "stale"
    /\ perf' = [perf EXCEPT !.pc = "shown", !.stats = stats]
    /\ UNCHANGED <<data, now, tz, view, chart, conv, appVars>>

(***************************************************************************)
(* Dashboard render: the metrics memo is computed from the current data.   *)
(***************************************************************************)
viewStale == [pc |-> "stale", metrics |-> metricsReturn(metricsZero)]

DashboardMetrics ==
    /\ view.pc = "stale"
    /\ view' = [pc |-> "shown", metrics |-> metrics]
    /\ UNCHANGED <<data, now, tz, chart, perf, conv, appVars>>

\* A setData call re-renders the mounted page: a memo whose dependency
\* list holds a replaced object is computed again.  metrics depends on
\* [data, convertValue] and chartData on [data, metrics]; stats depends on
\* [data.transactions, data.accounts, data.groups, timeRange, dimension,
\* filterId], and statsDeps tells whether the call replaced one of the three
\* lists.
Rerender(statsDeps) ==
    /\ view' = [view EXCEPT !.pc = "stale"]
    /\ chart' = chartIdle
    /\ perf' = IF statsDeps THEN [perf EXCEPT !.pc = "stale"] ELSE perf
    /\ UNCHANGED <<now, tz, conv>>

(***************************************************************************)
(* Input domains.                                                          *)
(***************************************************************************)
IdSeq == <<"a1", "a2", "a3", "a4">>
TxIdSeq == <<"t1", "t2", "t3", "t4">>
Balances == {0, 2}
Limits == {Undefined, 10}

Account(id, type, currency, balance, creditLimit) ==
    [id |-> id, groupId |-> "null", type |-> type, currency |-> currency,
     balance |-> balance, creditLimit |-> creditLimit, category |-> "c1"]

\* creditLimit is set only for CREDIT accounts (handleCreateAccount).
AccountDomain(id) ==
    {Account(id, "DEBIT", cur, b, Undefined) : cur \in {"COP", "USD"}, b \in Balances}
    \cup {Account(id, "CREDIT", cur, b, l) : cur \in {"COP", "USD"}, b \in Balances, l \in Limits}

AccountLists(n) ==
    UNION {{s \in [1..k -> UNION {AccountDomain(IdSeq[j]) : j \in 1..k}] :
               \A j \in 1..k : s[j].id = IdSeq[j]} : k \in 0..n}

Transaction(id, accountId, amount, newBalance, date, rate) ==
    [id |-> id, accountId |-> accountId, amount |-> amount, newBalance |-> newBalance,
     date |-> date, exchangeRateUsed |-> rate]

INITIAL_DATA ==
    [accounts |-> <<>>, groups |-> <<>>, transactions |-> <<>>,
     settings |-> [usdToCopRate |-> 4]]

rateFetchIdle == [calls |-> 0, pending |-> 0, outcomes |-> <<>>]

\* The provider at rest: a logged-in user, an empty store, nothing in flight.
AppIdle ==
    /\ user = [loggedIn |-> TRUE, isPremium |-> TRUE]
    /\ store = [accounts |-> <<>>, groups |-> <<>>, transactions |-> <<>>]
    /\ inflight = {}
    /\ refreshes = {}
    /\ applied = <<>>
    /\ ids = [acc |-> 1, tx |-> 1, grp |-> 1, ops |-> 0]
    /\ premiumModalOpen = FALSE
    /\ rateFetch = rateFetchIdle

(***************************************************************************)
(* SpecValuation: the valuation of every bounded account set.              *)
(***************************************************************************)
InitValuation ==
    /\ \E accs \in AccountLists(MaxAccounts), r \in Rates :
          data = [INITIAL_DATA EXCEPT !.accounts = accs, !.settings.usdToCopRate = r]
    /\ now = PROJECT_START_DATE
    /\ tz = 0
    /\ view = viewStale
    /\ chart = chartIdle
    /\ perf = perfIdle
    /\ conv = convIdle
    /\ AppIdle

NextValuation == DashboardMetrics

SpecValuation == InitValuation /\ [][NextValuation]_vars

(***************************************************************************)
(* SpecHistory: the history reconstruction of every bounded ledger.  The  *)
(* dates are what handleUpdateBalance records: the UTC midnight of the    *)
(* day picked in the form, which may lie before the project start or      *)
(* after today.                                                            *)
(***************************************************************************)
HistoryAccountDomain(id) ==
    {Account(id, "DEBIT", "COP", 2, Undefined), Account(id, "CREDIT", "USD", 2, 10)}

HistoryAccountLists(n) ==
    UNION {{s \in [1..k -> UNION {HistoryAccountDomain(IdSeq[j]) : j \in 1..k}] :
               \A j \in 1..k : s[j].id = IdSeq[j]} : k \in 0..n}

FormDays == -1..(MaxNow \div TicksPerDay)
dateOfDay(day) == day * TicksPerDay

\* <<amount, exchangeRateUsed>> of the transactions of the first and of the
\* second account: a rate was recorded, or none was.
TxKinds == <<(<<2, 3>>), (<<-1, 0>>)>>

TxDomain(id) ==
    {Transaction(id, IdSeq[a], TxKinds[a][1], TxKinds[a][1], dateOfDay(day), TxKinds[a][2]) :
        a \in 1..2, day \in FormDays}

TxLists(n) ==
    UNION {{s \in [1..k -> UNION {TxDomain(TxIdSeq[j]) : j \in 1..k}] :
               \A j \in 1..k : s[j].id = TxIdSeq[j]} : k \in 0..n}

InitHistory ==
    /\ \E accs \in HistoryAccountLists(MaxAccounts), txs \in TxLists(MaxTxs) :
          data = [INITIAL_DATA EXCEPT !.accounts = accs, !.transactions = txs,
                                      !.settings.usdToCopRate = 3]
    /\ now \in PROJECT_START_DATE..MaxNow
    /\ tz \in TimeZones
    /\ view = viewStale
    /\ chart = chartIdle
    /\ perf = perfIdle
    /\ conv = convIdle
    /\ AppIdle

NextHistory == ChartBegin \/ ChartWhile \/ ChartUnshift \/ ChartReturn

SpecHistory == InitHistory /\ [][NextHistory]_vars

(***************************************************************************)
(* SpecPerformance: the stats of every bounded ledger, window and scope.   *)
(* `now` is a UTC midnight 40 days after the project start, so the 1M      *)
(* window opens on day 10.                                                 *)
(***************************************************************************)
PerfNow == dateOfDay(40)
PerfDays == {-10, 5, 10, 39}

PerfAccountDomain(id) ==
    {[Account(id, "DEBIT", "COP", 6, Undefined) EXCEPT !.groupId = g, !.category = "c1"]
        : g \in {"null", "g1"}}
    \cup {[Account(id, "CREDIT", "USD", 2, 10) EXCEPT !.groupId = g, !.category = "c2"]
        : g \in {"null", "g1"}}

PerfAccountLists(n) ==
    UNION {{s \in [1..k -> UNION {PerfAccountDomain(IdSeq[j]) : j \in 1..k}] :
               \A j \in 1..k : s[j].id = IdSeq[j]} : k \in 0..n}

PerfTxDomain(id) ==
    {Transaction(id, IdSeq[a], TxKinds[a][1], TxKinds[a][1], dateOfDay(day), TxKinds[a][2]) :
        a \in 1..2, day \in PerfDays}

PerfTxLists(n) ==
    UNION {{s \in [1..k -> UNION {PerfTxDomain(TxIdSeq[j]) : j \in 1..k}] :
               \A j \in 1..k : s[j].id = TxIdSeq[j]} : k \in 0..n}

TimeRanges == {"1M", "3M", "6M", "1Y", "ALL"}
Scopes == {<<"GENERAL", "ALL">>, <<"GROUP", "ALL">>, <<"GROUP", "g1">>, <<"CATEGORY", "c1">>}

InitPerformance ==
    /\ \E accs \in PerfAccountLists(MaxAccounts), txs \in PerfTxLists(MaxTxs) :
          data = [INITIAL_DATA EXCEPT !.accounts = accs, !.transactions = txs,
                                      !.settings.usdToCopRate = 3]
    /\ now = PerfNow
    /\ tz = 0
    /\ view = viewStale
    /\ chart = chartIdle
    /\ \E tr \in TimeRanges, sc \in Scopes :
          perf = [perfIdle EXCEPT !.timeRange = tr, !.dimension = sc[1], !.filterId = sc[2]]
    /\ conv = convIdle
    /\ AppIdle

NextPerformance == PerformanceStats

SpecPerformance == InitPerformance /\ [][NextPerformance]_vars

(***************************************************************************)
(* The store (src/services/api.ts): rows as the inserts write them and as  *)
(* fetchAll maps them back.                                                *)
(***************************************************************************)
MAX_FREE_ACCOUNTS == 3

rowOfAccount(acc) ==
    [id |-> acc.id, group_id |-> acc.groupId, type |-> acc.type, currency |-> acc.currency,
     balance |-> acc.balance, credit_limit |-> acc.creditLimit]

\* creditLimit: a.credit_limit ? Number(a.credit_limit) : undefined; the
\* rows carry no category.
accountOfRow(a) ==
    [id |-> a.id, groupId |-> a.group_id, type |-> a.type, currency |-> a.currency,
     balance |-> a.balance,
     creditLimit |-> IF Truthy(a.credit_limit) THEN a.credit_limit ELSE Undefined,
     category |-> "undefined"]

rowOfTx(tx) ==
    [id |-> tx.id, account_id |-> tx.accountId, amount |-> tx.amount,
     new_balance |-> tx.newBalance, date |-> tx.date,
     exchange_rate_used |-> tx.exchangeRateUsed]

txOfRow(t) ==
    [id |-> t.id, accountId |-> t.account_id, amount |-> t.amount,
     newBalance |-> t.new_balance, date |-> t.date,
     exchangeRateUsed |-> t.exchange_rate_used]

\* supabase.from('accounts').update(dbUpdates).eq('id', id)
storeUpdateBalance(rows, id, value) ==
    [k \in 1..Len(rows) |-> IF rows[k].id = id THEN [rows[k] EXCEPT !.balance = value]
                                               ELSE rows[k]]

storeUpdateCreditLimit(rows, id, value) ==
    [k \in 1..Len(rows) |-> IF rows[k].id = id THEN [rows[k] EXCEPT !.credit_limit = value]
                                               ELSE rows[k]]

(***************************************************************************)
(* The budget provider and the AccountsPage handlers.  A handler runs to   *)
(* its first await in one action; what it awaits is a request in flight,   *)
(* and the rest of the handler runs when the store answers.                *)
(***************************************************************************)
newRefresh(rid) == [rid |-> rid, groups |-> <<>>, accounts |-> <<>>, transactions |-> <<>>]

\* setData(p => ...) of updateAccount(id, {creditLimit})
updateCreditLimitLocal(p, id, value) ==
    [p EXCEPT !.accounts =
        [k \in 1..Len(@) |-> IF @[k].id = id THEN [@[k] EXCEPT !.creditLimit = value]
                                             ELSE @[k]]]

\* setData(p => ...) of addTransaction(tx, true)
addTransactionLocal(p, tx) ==
    [p EXCEPT !.accounts =
                 [k \in 1..Len(@) |-> IF @[k].id = tx.accountId
                                      THEN [@[k] EXCEPT !.balance = tx.newBalance]
                                      ELSE @[k]],
              !.transactions = Append(@, tx)]

\* What the updater of addTransaction found in the state it was applied to.
appliedEntry(p, tx) ==
    LET found == findAccount(p.accounts, tx.accountId)
    IN [id |-> tx.id, accountId |-> tx.accountId, amount |-> tx.amount,
        newBalance |-> tx.newBalance, present |-> found # <<>>,
        previousBalance |-> IF found # <<>> THEN found[1].balance ELSE 0]

\* handleUpdateBalance from `const newBal` on, with the account, the form and
\* the rate of the render the handler was created in; `rest` are the other
\* requests in flight.
saveBalance(acc, txId, newBal, day, rate, rest) ==
    LET diff == newBal - acc.balance
        tx == Transaction(txId, acc.id, diff, newBal, dateOfDay(day), rate)
    IN IF diff # 0 /\ user.loggedIn
       THEN /\ data' = addTransactionLocal(data, tx)
            /\ applied' = Append(applied, appliedEntry(data, tx))
            /\ inflight' = rest \cup {[kind |-> "createTransaction", tx |-> tx],
                                      [kind |-> "updateBalance", tx |-> tx]}
            /\ Rerender(TRUE)
       ELSE /\ inflight' = rest
            /\ UNCHANGED <<data, applied, memoVars>>

handleUpdateBalance(id, newBal, newCreditLimit, day) ==
    /\ user.loggedIn
    /\ ids.tx <= MaxTxs
    /\ findAccount(data.accounts, id) # <<>>
    /\ LET acc == findAccount(data.accounts, id)[1]
           txId == TxIdSeq[ids.tx]
       IN IF acc.type = "CREDIT" /\ newCreditLimit # Undefined
          THEN /\ data' = updateCreditLimitLocal(data, id, newCreditLimit)
               /\ inflight' = inflight \cup
                     {[kind |-> "updateCreditLimit", id |-> id, value |-> newCreditLimit,
                       awaiting |-> [acc |-> acc, txId |-> txId, newBal |-> newBal,
                                     day |-> day, rate |-> data.settings.usdToCopRate]]}
               /\ Rerender(TRUE)
               /\ UNCHANGED applied
          ELSE saveBalance(acc, txId, newBal, day, data.settings.usdToCopRate, inflight)
    /\ ids' = [ids EXCEPT !.tx = @ + 1, !.ops = @ + 1]
    /\ UNCHANGED <<user, store, refreshes, premiumModalOpen, rateFetch>>

\* api.data.updateAccount(id, {creditLimit}) answers; handleUpdateBalance resumes.
ApiUpdateCreditLimit(req) ==
    /\ req \in inflight
    /\ req.kind = "updateCreditLimit"
    /\ store' = [store EXCEPT !.accounts = storeUpdateCreditLimit(@, req.id, req.value)]
    /\ saveBalance(req.awaiting.acc, req.awaiting.txId, req.awaiting.newBal,
                   req.awaiting.day, req.awaiting.rate, inflight \ {req})
    /\ UNCHANGED <<user, refreshes, ids, premiumModalOpen, rateFetch>>

\* api.data.updateAccount(tx.accountId, {balance: tx.newBalance}) answers.
ApiUpdateBalance(req) ==
    /\ req \in inflight
    /\ req.kind = "updateBalance"
    /\ store' = [store EXCEPT
                   !.accounts = storeUpdateBalance(@, req.tx.accountId, req.tx.newBalance)]
    /\ inflight' = inflight \ {req}
    /\ UNCHANGED <<data, user, refreshes, applied, ids, premiumModalOpen, rateFetch, memoVars>>

\* api.data.createTransaction(tx) answers.
ApiCreateTransaction(req) ==
    /\ req \in inflight
    /\ req.kind = "createTransaction"
    /\ store' = [store EXCEPT !.transactions = Append(@, rowOfTx(req.tx))]
    /\ inflight' = inflight \ {req}
    /\ UNCHANGED <<data, user, refreshes, applied, ids, premiumModalOpen, rateFetch, memoVars>>

addAccount(acc) ==
    /\ user.loggedIn
    /\ IF Len(data.accounts) >= MAX_FREE_ACCOUNTS /\ ~user.isPremium
       THEN /\ premiumModalOpen' = TRUE
            /\ UNCHANGED <<data, inflight, ids, memoVars>>
       ELSE /\ ids.acc <= MaxAccounts
            /\ acc.id = IdSeq[ids.acc]
            /\ data' = [data EXCEPT !.accounts = Append(@, acc)]
            /\ inflight' = inflight \cup {[kind |-> "createAccount", acc |-> acc]}
            /\ ids' = [ids EXCEPT !.acc = @ + 1, !.ops = @ + 1]
            /\ Rerender(TRUE)
            /\ UNCHANGED premiumModalOpen
    /\ UNCHANGED <<user, store, refreshes, applied, rateFetch>>

\* api.data.createAccount(acc) answers; addAccount calls refreshData().
ApiCreateAccount(req) ==
    /\ req \in inflight
    /\ req.kind = "createAccount"
    /\ store' = [store EXCEPT !.accounts = Append(@, rowOfAccount(req.acc))]
    /\ inflight' = inflight \ {req}
    /\ refreshes' = refreshes \cup {newRefresh(req.acc.id)}
    /\ UNCHANGED <<data, user, applied, ids, premiumModalOpen, rateFetch, memoVars>>

MAX_FREE_GROUPS == 1

GroupIdSeq == <<"g1", "g2", "g3", "g4">>

Group(id) == [id |-> id]

\* supabase.from('groups').insert({id, name, user_id}) and its mapping back.
rowOfGroup(grp) == [id |-> grp.id]

groupOfRow(g) == [id |-> g.id]

addGroup(grp) ==
    /\ user.loggedIn
    /\ IF Len(data.groups) >= MAX_FREE_GROUPS /\ ~user.isPremium
       THEN /\ premiumModalOpen' = TRUE
            /\ UNCHANGED <<data, inflight, ids, memoVars>>
       ELSE /\ ids.grp <= MaxGroups
            /\ grp.id = GroupIdSeq[ids.grp]
            /\ data' = [data EXCEPT !.groups = Append(@, grp)]
            /\ inflight' = inflight \cup {[kind |-> "createGroup", grp |-> grp]}
            /\ ids' = [ids EXCEPT !.grp = @ + 1, !.ops = @ + 1]
            /\ Rerender(TRUE)
            /\ UNCHANGED premiumModalOpen
    /\ UNCHANGED <<user, store, refreshes, applied, rateFetch>>

\* api.data.createGroup(grp) answers; addGroup calls refreshData().
ApiCreateGroup(req) ==
    /\ req \in inflight
    /\ req.kind = "createGroup"
    /\ store' = [store EXCEPT !.groups = Append(@, rowOfGroup(req.grp))]
    /\ inflight' = inflight \ {req}
    /\ refreshes' = refreshes \cup {newRefresh(req.grp.id)}
    /\ UNCHANGED <<data, user, applied, ids, premiumModalOpen, rateFetch, memoVars>>

\* setData(p => ...) of deleteGroup(id)
deleteGroupAndMembers(p, id) ==
    [p EXCEPT !.groups = SelectSeq(@, LAMBDA g : g.id # id),
              !.accounts = SelectSeq(@, LAMBDA a : a.groupId # id)]

deleteGroupLocal(p, id) ==
    [p EXCEPT !.groups = SelectSeq(@, LAMBDA g : g.id # id),
              !.accounts = [k \in 1..Len(@) |->
                               IF @[k].groupId = id THEN [@[k] EXCEPT !.groupId = "null"]
                                                    ELSE @[k]]]

deleteGroup(id) ==
    /\ \E k \in 1..Len(data.groups) : data.groups[k].id = id
    /\ data' = deleteGroupLocal(data, id)
    /\ inflight' = inflight \cup {[kind |-> "deleteGroup", id |-> id, seq |-> ids.ops]}
    /\ ids' = [ids EXCEPT !.ops = @ + 1]
    /\ Rerender(TRUE)
    /\ UNCHANGED <<user, store, refreshes, applied, premiumModalOpen, rateFetch>>

\* supabase.from('groups').delete().eq('id', id) answers.  The schema is not
\* part of the repository: the account rows that referenced the group are
\* set to null by the foreign key, or keep the id.
ApiDeleteGroup(req) ==
    /\ req \in inflight
    /\ req.kind = "deleteGroup"
    /\ \E setNull \in BOOLEAN :
          store' = [store EXCEPT
                      !.groups = SelectSeq(@, LAMBDA g : g.id # req.id),
                      !.accounts = [k \in 1..Len(@) |->
                                       IF setNull /\ @[k].group_id = req.id
                                       THEN [@[k] EXCEPT !.group_id = "null"]
                                       ELSE @[k]]]
    /\ inflight' = inflight \ {req}
    /\ UNCHANGED <<data, user, refreshes, applied, ids, premiumModalOpen, rateFetch, memoVars>>

\* setData(p => ...) of deleteAccount(id)
deleteAccountLocal(p, id) ==
    [p EXCEPT !.accounts = SelectSeq(@, LAMBDA a : a.id # id),
              !.transactions = SelectSeq(@, LAMBDA t : t.accountId # id)]

deleteAccount(id) ==
    /\ \E k \in 1..Len(data.accounts) : data.accounts[k].id = id
    /\ data' = deleteAccountLocal(data, id)
    /\ inflight' = inflight \cup {[kind |-> "deleteTransactions", id |-> id, seq |-> ids.ops]}
    /\ ids' = [ids EXCEPT !.ops = @ + 1]
    /\ Rerender(TRUE)
    /\ UNCHANGED <<user, store, refreshes, applied, premiumModalOpen, rateFetch>>

\* api.data.deleteAccount: supabase.from('transactions').delete() answers,
\* and the delete of the account row is sent.
ApiDeleteTransactions(req) ==
    /\ req \in inflight
    /\ req.kind = "deleteTransactions"
    /\ store' = [store EXCEPT !.transactions = SelectSeq(@, LAMBDA t : t.account_id # req.id)]
    /\ inflight' = (inflight \ {req}) \cup {[req EXCEPT !.kind = "deleteAccount"]}
    /\ UNCHANGED <<data, user, refreshes, applied, ids, premiumModalOpen, rateFetch, memoVars>>

\* supabase.from('accounts').delete().eq('id', id) answers.
ApiDeleteAccount(req) ==
    /\ req \in inflight
    /\ req.kind = "deleteAccount"
    /\ store' = [store EXCEPT !.accounts = SelectSeq(@, LAMBDA a : a.id # req.id)]
    /\ inflight' = inflight \ {req}
    /\ UNCHANGED <<data, user, refreshes, applied, ids, premiumModalOpen, rateFetch, memoVars>>

\* fetchAll: the three selects of Promise.all, each answered on its own.
FetchGroups(r) ==
    /\ r \in refreshes
    /\ r.groups = <<>>
    /\ refreshes' = (refreshes \ {r}) \cup {[r EXCEPT !.groups = <<store.groups>>]}
    /\ UNCHANGED <<data, user, store, inflight, applied, ids, premiumModalOpen, rateFetch, memoVars>>

FetchAccounts(r) ==
    /\ r \in refreshes
    /\ r.accounts = <<>>
    /\ refreshes' = (refreshes \ {r}) \cup {[r EXCEPT !.accounts = <<store.accounts>>]}
    /\ UNCHANGED <<data, user, store, inflight, applied, ids, premiumModalOpen, rateFetch, memoVars>>

FetchTransactions(r) ==
    /\ r \in refreshes
    /\ r.transactions = <<>>
    /\ refreshes' = (refreshes \ {r}) \cup {[r EXCEPT !.transactions = <<store.transactions>>]}
    /\ UNCHANGED <<data, user, store, inflight, applied, ids, premiumModalOpen, rateFetch, memoVars>>

\* refreshData taking the fetched settings as they are.
refreshedDataFetchedRate(prev, r) ==
    [groups |-> [k \in 1..Len(r.groups[1]) |-> groupOfRow(r.groups[1][k])],
     accounts |-> [k \in 1..Len(r.accounts[1]) |-> accountOfRow(r.accounts[1][k])],
     transactions |-> SelectSeq([k \in 1..Len(r.transactions[1]) |->
                                    txOfRow(r.transactions[1][k])],
                                LAMBDA t : getTime(t) >= PROJECT_START_DATE),
     settings |-> [usdToCopRate |-> INITIAL_DATA.settings.usdToCopRate]]

\* refreshData after `await api.data.fetchAll()`.
refreshedData(prev, r) ==
    [groups |-> [k \in 1..Len(r.groups[1]) |-> groupOfRow(r.groups[1][k])],
     accounts |-> [k \in 1..Len(r.accounts[1]) |-> accountOfRow(r.accounts[1][k])],
     transactions |-> SelectSeq([k \in 1..Len(r.transactions[1]) |->
                                    txOfRow(r.transactions[1][k])],
                                LAMBDA t : getTime(t) >= PROJECT_START_DATE),
     settings |-> [usdToCopRate |-> IF prev.settings.usdToCopRate > 0
                                    THEN prev.settings.usdToCopRate
                                    ELSE INITIAL_DATA.settings.usdToCopRate]]

refreshData(r) ==
    /\ r \in refreshes
    /\ r.groups # <<>> /\ r.accounts # <<>> /\ r.transactions # <<>>
    /\ data' = refreshedData(data, r)
    /\ refreshes' = refreshes \ {r}
    /\ Rerender(TRUE)
    /\ UNCHANGED <<user, store, inflight, applied, ids, premiumModalOpen, rateFetch>>

(***************************************************************************)
(* fetchUSDRate: called by the login effect and by the hourly interval.    *)
(* The rate service states COP in quarters of the model's rate unit;      *)
(* toFixed2 rounds to the unit, as parseFloat(x.toFixed(2)) rounds to the *)
(* hundredth.                                                              *)
(***************************************************************************)
MaxRateCalls == 2

RawRates == {1, 8, 9, 12}

toFixed2(q) == (q + 2) \div 4

\* What `await fetch(...)` and `await response.json()` can produce: an
\* exception, or a body with a result and possibly a COP rate.
RateAnswers ==
    {[kind |-> "throw", result |-> "none", COP |-> Undefined]}
    \cup {[kind |-> "json", result |-> res, COP |-> q] :
             res \in {"success", "error"}, q \in RawRates \cup {Undefined}}

fetchUSDRate ==
    /\ user.loggedIn
    /\ rateFetch.calls < MaxRateCalls
    /\ rateFetch' = [rateFetch EXCEPT !.calls = @ + 1, !.pending = @ + 1]
    /\ UNCHANGED <<data, user, store, inflight, refreshes, applied, ids,
                   premiumModalOpen, memoVars>>

\* The rest of fetchUSDRate without the test of result.result: any body
\* with a COP rate sets the rate.
fetchUSDRateAnswerUnchecked(ans) ==
    /\ rateFetch.pending > 0
    /\ IF ans.kind = "json" /\ Truthy(ans.COP)
       THEN /\ data' = [data EXCEPT !.settings.usdToCopRate = toFixed2(ans.COP)]
            /\ rateFetch' = [rateFetch EXCEPT
                               !.pending = @ - 1,
                               !.outcomes = Append(@, IF ans.result = "success"
                                                      THEN "updated" ELSE "failed")]
            /\ Rerender(FALSE)
       ELSE /\ rateFetch' = [rateFetch EXCEPT !.pending = @ - 1,
                                              !.outcomes = Append(@, "failed")]
            /\ UNCHANGED <<data, memoVars>>
    /\ UNCHANGED <<user, store, inflight, refreshes, applied, ids, premiumModalOpen>>

\* The rest of fetchUSDRate, once the service has answered.  Both awaits
\* are inside the try block: an exception is logged by the catch and the
\* call returns like one that got a body it does not accept.
fetchUSDRateAnswer(ans) ==
    /\ rateFetch.pending > 0
    /\ IF ans.kind = "json" /\ ans.result = "success" /\ Truthy(ans.COP)
       THEN /\ data' = [data EXCEPT !.settings.usdToCopRate = toFixed2(ans.COP)]
            /\ rateFetch' = [rateFetch EXCEPT !.pending = @ - 1,
                                              !.outcomes = Append(@, "updated")]
            /\ Rerender(FALSE)
       ELSE /\ rateFetch' = [rateFetch EXCEPT !.pending = @ - 1,
                                              !.outcomes = Append(@, "failed")]
            /\ UNCHANGED <<data, memoVars>>
    /\ UNCHANGED <<user, store, inflight, refreshes, applied, ids, premiumModalOpen>>

(***************************************************************************)
(* Spec: the provider after login.  The store holds an account of an       *)
(* earlier session and the login effect has called refreshData.            *)
(***************************************************************************)
NewBalances == {0, 2}
NewCreditLimits == {Undefined, 10}
AppDays == {1}

Init ==
    /\ data = INITIAL_DATA
    /\ now = dateOfDay(1)
    /\ tz = 0
    /\ view = viewStale
    /\ chart = chartIdle
    /\ perf = perfIdle
    /\ conv = convIdle
    /\ user = [loggedIn |-> TRUE, isPremium |-> FALSE]
    /\ \E acc \in HistoryAccountDomain(IdSeq[1]) :
          store = [accounts |-> <<rowOfAccount(acc)>>, groups |-> <<>>, transactions |-> <<>>]
    /\ inflight = {}
    /\ refreshes = {newRefresh("login")}
    /\ applied = <<>>
    /\ ids = [acc |-> 2, tx |-> 1, grp |-> 1, ops |-> 0]
    /\ premiumModalOpen = FALSE
    /\ rateFetch = rateFetchIdle

Next ==
    \/ \E j \in 1..MaxAccounts, b \in NewBalances, l \in NewCreditLimits, d \in AppDays :
          handleUpdateBalance(IdSeq[j], b, l, d)
    \/ \E j \in 1..MaxAccounts : \E acc \in HistoryAccountDomain(IdSeq[j]) : addAccount(acc)
    \/ \E req \in inflight : ApiUpdateCreditLimit(req)
    \/ \E req \in inflight : ApiUpdateBalance(req)
    \/ \E req \in inflight : ApiCreateTransaction(req)
    \/ \E req \in inflight : ApiCreateAccount(req)
    \/ \E r \in refreshes : FetchGroups(r)
    \/ \E r \in refreshes : FetchAccounts(r)
    \/ \E r \in refreshes : FetchTransactions(r)
    \/ \E r \in refreshes : refreshData(r)

Spec == Init /\ [][Next]_vars

(***************************************************************************)
(* SpecConvert: convertValue called by the pages while the rate changes.   *)
(***************************************************************************)
InitConvert ==
    /\ data = INITIAL_DATA
    /\ now \in 0..MaxNow
    /\ tz = 0
    /\ view = viewStale
    /\ chart = chartIdle
    /\ perf = perfIdle
    /\ conv = convIdle
    /\ AppIdle

NextConvert ==
    \/ ConvertValue
    \/ fetchUSDRate
    \/ \E ans \in RateAnswers : fetchUSDRateAnswer(ans)

SpecConvert == InitConvert /\ [][NextConvert]_vars

(***************************************************************************)
(* SpecProvider: the provider at rest after a refresh, local state equal   *)
(* to the store: two groups, an account in the first, an account in the   *)
(* second or in none, one transaction.  Then up to MaxOps handler calls,   *)
(* the rate fetches, and the store's answers in any order.                 *)
(***************************************************************************)
ProviderDays == {-1, 1}

ProviderAccounts ==
    {<<[a1 EXCEPT !.groupId = "g1"], [a2 EXCEPT !.groupId = g]>> :
        a1 \in HistoryAccountDomain(IdSeq[1]),
        a2 \in {Account(IdSeq[2], "CREDIT", "USD", 2, 10)},
        g \in {"g2", "null"}}

InitProvider ==
    /\ now = dateOfDay(1)
    /\ tz = 0
    /\ view = viewStale
    /\ chart = chartIdle
    /\ perf = perfIdle
    /\ conv = convIdle
    /\ \E premium \in BOOLEAN : user = [loggedIn |-> TRUE, isPremium |-> premium]
    /\ \E accs \in ProviderAccounts :
          LET groups == <<Group("g1"), Group("g2")>>
              txs == <<Transaction(TxIdSeq[1], accs[1].id, 2, accs[1].balance, dateOfDay(0), 4)>>
          IN /\ store = [accounts |-> [k \in 1..Len(accs) |-> rowOfAccount(accs[k])],
                         groups |-> [k \in 1..Len(groups) |-> rowOfGroup(groups[k])],
                         transactions |-> [k \in 1..Len(txs) |-> rowOfTx(txs[k])]]
             /\ data = refreshedData(INITIAL_DATA,
                                     [rid |-> "login", groups |-> <<store.groups>>,
                                      accounts |-> <<store.accounts>>,
                                      transactions |-> <<store.transactions>>])
    /\ inflight = {}
    /\ refreshes = {}
    /\ applied = <<>>
    /\ ids = [acc |-> 3, tx |-> 2, grp |-> 3, ops |-> 0]
    /\ premiumModalOpen = FALSE
    /\ rateFetch = rateFetchIdle

NextProvider ==
    \/ /\ ids.ops < MaxOps
       /\ \E j \in 1..MaxAccounts, b \in NewBalances, l \in NewCreditLimits, d \in ProviderDays :
             handleUpdateBalance(IdSeq[j], b, l, d)
    \/ /\ ids.ops < MaxOps
       /\ \E j \in 1..MaxGroups : addGroup(Group(GroupIdSeq[j]))
    \/ /\ ids.ops < MaxOps
       /\ \E j \in 1..MaxGroups : deleteGroup(GroupIdSeq[j])
    \/ /\ ids.ops < MaxOps
       /\ \E j \in 1..MaxAccounts : deleteAccount(IdSeq[j])
    \/ fetchUSDRate
    \/ \E ans \in RateAnswers : fetchUSDRateAnswer(ans)
    \/ \E req \in inflight : ApiUpdateCreditLimit(req)
    \/ \E req \in inflight : ApiUpdateBalance(req)
    \/ \E req \in inflight : ApiCreateTransaction(req)
    \/ \E req \in inflight : ApiCreateGroup(req)
    \/ \E req \in inflight : ApiDeleteGroup(req)
    \/ \E req \in inflight : ApiDeleteTransactions(req)
    \/ \E req \in inflight : ApiDeleteAccount(req)
    \/ \E r \in refreshes : FetchGroups(r)
    \/ \E r \in refreshes : FetchAccounts(r)
    \/ \E r \in refreshes : FetchTransactions(r)
    \/ \E r \in refreshes : refreshData(r)

SpecProvider == InitProvider /\ [][NextProvider]_vars

(***************************************************************************)
(* SpecRender: the pages over the provider.  From the provider at rest:    *)
(* the memos are computed, the rate fetch answers, an account is deleted,  *)
(* the selectors of the PerformancePage are used.                          *)
(***************************************************************************)
RenderRateAnswers ==
    {ans \in RateAnswers : ans.kind = "json" => ans.result = "success" /\ ans.COP \in {8, 12}}

InitRender ==
    /\ now = dateOfDay(1)
    /\ tz = 0
    /\ view = viewStale
    /\ chart = chartIdle
    /\ perf = perfIdle
    /\ conv = convIdle
    /\ user = [loggedIn |-> TRUE, isPremium |-> TRUE]
    /\ LET accs == <<[Account(IdSeq[1], "DEBIT", "COP", 2, Undefined) EXCEPT !.groupId = "g1"],
                     Account(IdSeq[2], "CREDIT", "USD", 2, 10)>>
           groups == <<Group("g1")>>
           txs == <<Transaction(TxIdSeq[1], accs[1].id, 2, accs[1].balance, dateOfDay(1), 4)>>
       IN /\ store = [accounts |-> [k \in 1..Len(accs) |-> rowOfAccount(accs[k])],
                      groups |-> [k \in 1..Len(groups) |-> rowOfGroup(groups[k])],
                      transactions |-> [k \in 1..Len(txs) |-> rowOfTx(txs[k])]]
          /\ data = refreshedData(INITIAL_DATA,
                                  [rid |-> "login", groups |-> <<store.groups>>,
                                   accounts |-> <<store.accounts>>,
                                   transactions |-> <<store.transactions>>])
    /\ inflight = {}
    /\ refreshes = {}
    /\ applied = <<>>
    /\ ids = [acc |-> 3, tx |-> 2, grp |-> 2, ops |-> 0]
    /\ premiumModalOpen = FALSE
    /\ rateFetch = rateFetchIdle

RenderTimeRanges == {"1M", "ALL"}
RenderDimensions == {"GENERAL", "GROUP"}
RenderFilterIds == {"ALL", "g1"}

NextRender ==
    \/ DashboardMetrics
    \/ ChartBegin
    \/ ChartWhile
    \/ ChartUnshift
    \/ ChartReturn
    \/ PerformanceStats
    \/ \E timeRange \in RenderTimeRanges : setTimeRange(timeRange)
    \/ \E dimension \in RenderDimensions : setDimension(dimension)
    \/ \E filterId \in RenderFilterIds : setFilterId(filterId)
    \/ fetchUSDRate
    \/ \E ans \in RenderRateAnswers : fetchUSDRateAnswer(ans)
    \/ /\ ids.ops < MaxOps
       /\ \E j \in 1..MaxAccounts : deleteAccount(IdSeq[j])
    \/ \E req \in inflight : ApiDeleteTransactions(req)
    \/ \E req \in inflight : ApiDeleteAccount(req)

SpecRender == InitRender /\ [][NextRender]_vars

(***************************************************************************)
(* Claims about the valuation (SpecValuation).                             *)
(***************************************************************************)
RECURSIVE SumBalances(_, _)
SumBalances(accs, credit) ==
    IF accs = <<>> THEN 0
    ELSE (IF (Head(accs).type = "CREDIT") = credit
          THEN convertValue(Head(accs).balance, Head(accs).currency, "COP")
          ELSE 0) + SumBalances(Tail(accs), credit)

RECURSIVE SumLimits(_)
SumLimits(accs) ==
    IF accs = <<>> THEN 0
    ELSE (IF Head(accs).type = "CREDIT" /\ Head(accs).creditLimit # Undefined
          THEN convertValue(Head(accs).creditLimit, Head(accs).currency, "COP")
          ELSE 0) + SumLimits(Tail(accs))

\* C1: for every account set and exchange rate, the computed valuation has
\* netWorth = totalAssets - totalLiabilities.
C1_NetWorthIdentity ==
    view.pc = "shown" =>
        view.metrics.netWorth = view.metrics.totalAssets - view.metrics.totalLiabilities

\* A mixed account set (one DEBIT, one CREDIT, one of them in USD) whose
\* net worth is negative has been valued.
C1_Witness ==
    /\ view.pc = "shown"
    /\ \E j, k \in 1..Len(data.accounts) :
          /\ data.accounts[j].type = "DEBIT"
          /\ data.accounts[k].type = "CREDIT"
          /\ data.accounts[j].currency # data.accounts[k].currency
    /\ view.metrics.totalLiabilities > 0
    /\ view.metrics.netWorth < 0

\* C2: non-CREDIT accounts contribute their converted balance to totalAssets
\* and liquidity only, CREDIT accounts to totalLiabilities only; hence
\* liquidity = totalAssets.
C2_Bucketing ==
    view.pc = "shown" =>
        /\ view.metrics.totalAssets = SumBalances(data.accounts, FALSE)
        /\ view.metrics.liquidity = SumBalances(data.accounts, FALSE)
        /\ view.metrics.totalLiabilities = SumBalances(data.accounts, TRUE)
        /\ view.metrics.liquidity = view.metrics.totalAssets

\* Both buckets are non-empty: a DEBIT and a CREDIT account with non-zero
\* balances have been folded.
C2_Witness ==
    /\ view.pc = "shown"
    /\ view.metrics.totalAssets > 0
    /\ view.metrics.totalLiabilities > 0
    /\ view.metrics.totalAssets # view.metrics.totalLiabilities

\* C3: buyingPower = liquidity + (creditLimitTotal - totalLiabilities), with
\* creditLimitTotal the sum of the converted limits of the CREDIT accounts
\* (absent = 0); a single CREDIT account, balance 2 and limit 10 in COP
\* (units of 100,000), gives netWorth -2, liquidity 0, buyingPower 8.
C3_Scenario == <<Account("a1", "CREDIT", "COP", 2, 10)>>

C3_BuyingPower ==
    view.pc = "shown" =>
        /\ view.metrics.creditLimitTotal = SumLimits(data.accounts)
        /\ view.metrics.buyingPower =
              view.metrics.liquidity
                + (SumLimits(data.accounts) - view.metrics.totalLiabilities)
        /\ data.accounts = C3_Scenario =>
              /\ view.metrics.netWorth = -2
              /\ view.metrics.liquidity = 0
              /\ view.metrics.buyingPower = 8

C3_Witness ==
    /\ view.pc = "shown"
    /\ data.accounts = C3_Scenario
    /\ view.metrics.buyingPower = 8

(***************************************************************************)
(* Claims about the history reconstruction (SpecHistory).                  *)
(***************************************************************************)
Consumed == SubSeq(chart.sortedTxs, 1, chart.txIdx)

RECURSIVE SumAmounts(_, _)
SumAmounts(txs, credit) ==
    IF txs = <<>> THEN 0
    ELSE (IF isCreditTx(Head(txs)) = credit THEN amountCOP(Head(txs)) ELSE 0)
         + SumAmounts(Tail(txs), credit)

TimesConsumed(id) == Cardinality({k \in 1..Len(Consumed) : Consumed[k].id = id})

FirstDayStart == dayStartOf(now, diffDaysOf(now) - 1)
TodayStart == dayStartOf(now, 0)

TxsSince(t) == SelectSeq(data.transactions, LAMBDA tx : tx.date >= t)

LastPoint == chart.points[Len(chart.points)]

\* Every consumed transaction has been subtracted once from its running
\* total (liabilities for a CREDIT account, liquidity otherwise), in
\* non-increasing order of timestamp.
SubtractedOnceInOrder ==
    /\ chart.curLiq = metrics.liquidity - SumAmounts(Consumed, FALSE)
    /\ chart.curLiabilities = metrics.totalLiabilities - SumAmounts(Consumed, TRUE)
    /\ \A k \in 1..Len(Consumed) : TimesConsumed(Consumed[k].id) = 1
    /\ \A j, k \in 1..Len(Consumed) : j < k => Consumed[j].date >= Consumed[k].date

\* The ledgers refreshData yields: every transaction belongs to a present
\* account and is dated from the project start on.
LedgerAsFetched ==
    \A k \in 1..Len(data.transactions) :
        /\ findAccount(data.accounts, data.transactions[k].accountId) # <<>>
        /\ data.transactions[k].date >= PROJECT_START_DATE

\* C4 as stated (taken on the ledgers refreshData yields): the last point of
\* the history has the current netWorth, whatever the transactions (those
\* dated today included).
C4_LastPointIsCurrent ==
    (chart.pc = "done" /\ LedgerAsFetched) => LastPoint.netWorth = metrics.netWorth

\* C4 amended: the last point is the valuation at the local start of today:
\* the current netWorth with the transactions dated at or after today's start
\* taken back out; it is the current netWorth when there is none.
C4_LastPointIsStartOfToday ==
    chart.pc = "done" =>
        /\ LastPoint.netWorth =
              metrics.netWorth - SumAmounts(TxsSince(TodayStart), FALSE)
                               + SumAmounts(TxsSince(TodayStart), TRUE)
        /\ TxsSince(TodayStart) = <<>> => LastPoint.netWorth = metrics.netWorth

\* A ledger with a transaction dated today and one dated earlier has been
\* reconstructed, and today's transaction moved the last point.
C4_Witness ==
    /\ chart.pc = "done"
    /\ Len(TxsSince(TodayStart)) = 1
    /\ Len(data.transactions) = 2
    /\ LastPoint.netWorth # metrics.netWorth

\* C5 as stated (taken on the ledgers refreshData yields): in one
\* reconstruction every transaction of the list is subtracted from a running
\* total exactly once, in non-increasing order.
C5_EveryTxOnce ==
    /\ chart.pc # "idle" => SubtractedOnceInOrder
    /\ (chart.pc = "done" /\ LedgerAsFetched) =>
          \A k \in 1..Len(data.transactions) : TimesConsumed(data.transactions[k].id) = 1

\* C5 amended: a transaction is subtracted at most once, in non-increasing
\* order of timestamp, and exactly once when its timestamp is at or after the
\* start of the earliest day walked; earlier ones are never subtracted.
C5_TxOnceWithinWalk ==
    /\ chart.pc # "idle" => SubtractedOnceInOrder
    /\ chart.pc = "done" =>
          \A k \in 1..Len(data.transactions) :
              TimesConsumed(data.transactions[k].id)
                 = (IF data.transactions[k].date >= FirstDayStart THEN 1 ELSE 0)

\* Two transactions of the same day have been subtracted, one from each
\* running total, over a walk of more than one day.
C5_Witness ==
    /\ chart.pc = "done"
    /\ chart.diffDays > 1
    /\ chart.txIdx = 2
    /\ SumAmounts(Consumed, FALSE) # 0
    /\ SumAmounts(Consumed, TRUE) # 0

\* C6: the history holds exactly one point per day walked, in strictly
\* ascending order of date, the earliest day first and today last.
C6_OnePointPerDayAscending ==
    /\ chart.pc = "loop" => Len(chart.points) = chart.i
    /\ chart.pc = "done" =>
          /\ Len(chart.points) = diffDaysOf(now)
          /\ Len(chart.points) >= 1
          /\ \A j \in 1..Len(chart.points) :
                chart.points[j].date = dayStartOf(now, Len(chart.points) - j)
          /\ \A j, k \in 1..Len(chart.points) :
                j < k => chart.points[j].date < chart.points[k].date
          /\ chart.points[1].date = FirstDayStart
          /\ LastPoint.date = TodayStart

\* A walk of several days has returned its points.
C6_Witness ==
    /\ chart.pc = "done"
    /\ Len(chart.points) >= 2
    /\ chart.points[1].netWorth # LastPoint.netWorth

\* The transactions of txs whose account is in the current account set.
Owned(txs) == SelectSeq(txs, LAMBDA tx : findAccount(data.accounts, tx.accountId) # <<>>)

\* C16: the reconstruction skips a transaction whose accountId matches no
\* current account: the running liquidity and the running liabilities are
\* the current totals less the consumed transactions of present accounts
\* only, so an orphan transaction moves no point.
C16_OrphanSkipped ==
    chart.pc \in {"loop", "done"} =>
        /\ chart.curLiq = metrics.liquidity - SumAmounts(Owned(Consumed), FALSE)
        /\ chart.curLiabilities = metrics.totalLiabilities - SumAmounts(Owned(Consumed), TRUE)


\* C17: every point of the history has netWorth = liquidity - liabilities
\* (the running totals it was emitted from) and buyingPower - netWorth = the
\* current creditLimitTotal, the same in every point whatever was replayed.
C17_PointIdentities ==
    [][chart'.points # chart.points =>
          /\ chart'.points[1].liquidity = chart.curLiq
          /\ chart'.points[1].netWorth = chart'.points[1].liquidity - chart.curLiabilities
          /\ \A k \in 1..Len(chart'.points) :
                chart'.points[k].buyingPower - chart'.points[k].netWorth
                    = metrics.creditLimitTotal]_vars

C17_Witness ==
    /\ chart.pc = "done"
    /\ Len(chart.points) >= 2
    /\ metrics.creditLimitTotal > 0
    /\ SumAmounts(Consumed, TRUE) # 0
    /\ chart.points[1].netWorth # LastPoint.netWorth
    /\ \A k \in 1..Len(chart.points) :
          chart.points[k].buyingPower - chart.points[k].netWorth = metrics.creditLimitTotal

(***************************************************************************)
(* Claims about the performance computation (SpecPerformance).             *)
(***************************************************************************)
InScope(id) ==
    \E k \in 1..Len(data.accounts) :
        /\ data.accounts[k].id = id
        /\ \/ perf.filterId = "ALL"
           \/ perf.dimension = "GENERAL"
           \/ perf.dimension = "GROUP" /\ data.accounts[k].groupId = perf.filterId
           \/ perf.dimension = "CATEGORY" /\ data.accounts[k].category = perf.filterId

InWindow(tx) == tx.date >= startDateOf(perf.timeRange)

RECURSIVE SumWindowed(_)
SumWindowed(txs) ==
    IF txs = <<>> THEN 0
    ELSE (IF InScope(Head(txs).accountId) /\ InWindow(Head(txs))
          THEN (IF Head(txs).exchangeRateUsed # 0
                THEN Head(txs).amount * Head(txs).exchangeRateUsed
                ELSE Head(txs).amount)
          ELSE 0) + SumWindowed(Tail(txs))

SomeWindowed ==
    \E k \in 1..Len(data.transactions) :
        InScope(data.transactions[k].accountId) /\ InWindow(data.transactions[k])

\* C7: whenever an in-scope transaction falls inside the window, startVal is
\* currentVal minus the converted amounts (amount * exchangeRateUsed, or the
\* raw amount without a rate) of exactly the in-scope transactions dated at or
\* after the window start; no other transaction affects it.
C7_StartVal ==
    perf.pc = "shown" =>
        /\ perf.stats.inferred = SomeWindowed
        /\ SomeWindowed =>
              perf.stats.startVal = perf.stats.currentVal - SumWindowed(data.transactions)

\* One transaction counted (in scope, in the window) next to one left out,
\* under a narrowed scope or window.
C7_Witness ==
    /\ perf.pc = "shown"
    /\ perf.stats.inferred
    /\ Len(data.transactions) = 2
    /\ \E j, k \in 1..2 :
          /\ InScope(data.transactions[j].accountId) /\ InWindow(data.transactions[j])
          /\ ~(InScope(data.transactions[k].accountId) /\ InWindow(data.transactions[k]))
    /\ perf.stats.startVal # perf.stats.currentVal

\* C8: whenever the inferred startVal is 0, normalReturn and annualizedReturn
\* are exactly 0 and no division by zero has been performed.
C8_ZeroStartVal ==
    (perf.pc = "shown" /\ perf.stats.inferred /\ perf.stats.startVal = 0) =>
        /\ perf.stats.normal = Zero
        /\ perf.stats.ea = NoGrowth
        /\ 0 \notin perf.stats.divisors

\* startVal was inferred as 0 while currentVal is not 0.
C8_Witness ==
    /\ perf.pc = "shown"
    /\ perf.stats.inferred
    /\ perf.stats.startVal = 0
    /\ perf.stats.currentVal # 0

\* C18: for a window shorter than one year (1M, 3M, 6M) the exponent the
\* annualized return raises currentVal / startVal to is 1: the window
\* length in years is guarded to a minimum of 1.
C18_ExponentGuarded ==
    (perf.stats.inferred /\ ~perf.stats.ea.zero /\ perf.timeRange \in {"1M", "3M", "6M"}) =>
        perf.stats.ea.exponent.num = perf.stats.ea.exponent.den

InScopeAccounts == SelectSeq(data.accounts, LAMBDA a : InScope(a.id))

\* C19: with accounts in scope and no in-scope transaction in the window, the
\* result has normalReturn 0, annualizedReturn 0, three projections (3, 6
\* and 12 months) without growth, and currentVal = assets - liabilities of
\* the in-scope accounts.
C19_NoTxInWindow ==
    (perf.pc = "shown" /\ Len(InScopeAccounts) > 0 /\ ~SomeWindowed) =>
        /\ perf.stats.normal = Zero
        /\ perf.stats.ea = NoGrowth
        /\ perf.stats.currentVal = SumBalances(InScopeAccounts, FALSE)
                                     - SumBalances(InScopeAccounts, TRUE)
        /\ Len(perf.stats.projections) = 3
        /\ \A k \in 1..Len(perf.stats.projections) :
              /\ perf.stats.projections[k].months = <<3, 6, 12>>[k]
              /\ perf.stats.projections[k].growth = NoGrowth



(***************************************************************************)
(* Claims about the provider (Spec).                                       *)
(***************************************************************************)
AtRest == inflight = {} /\ refreshes = {}

LocalTxsOf(id) == SelectSeq(data.transactions, LAMBDA tx : tx.accountId = id)
StoreTxsOf(id) == SelectSeq(store.transactions, LAMBDA t : t.account_id = id)

LocalBalancesFollowLedger ==
    \A k \in 1..Len(data.accounts) :
        LET txs == LocalTxsOf(data.accounts[k].id)
        IN Len(txs) > 0 => data.accounts[k].balance = txs[Len(txs)].newBalance

StoreBalancesFollowLedger ==
    \A k \in 1..Len(store.accounts) :
        LET txs == StoreTxsOf(store.accounts[k].id)
        IN Len(txs) > 0 => store.accounts[k].balance = txs[Len(txs)].new_balance

\* C9: an account's balance equals the newBalance of the latest transaction
\* recorded for it, in local state and in the store, whatever the order in
\* which concurrent writes and refreshes completed.  The claim says
\* "always"; it is stated here for the states it covers in every reading,
\* those in which each write and each refresh has completed.
C9_BalanceIsLatestNewBalance ==
    AtRest => LocalBalancesFollowLedger /\ StoreBalancesFollowLedger

\* C10: every balance-update transaction has
\* newBalance = previousBalance + amount, previousBalance being the balance
\* the account had in the state the update was applied to, also when two
\* updates of one account overlap.
C10_NewBalanceIsPreviousPlusAmount ==
    \A k \in 1..Len(applied) :
        applied[k].present =>
            applied[k].newBalance = applied[k].previousBalance + applied[k].amount

(***************************************************************************)
(* Claims about the currency converter (SpecConvert).                      *)
(***************************************************************************)
\* C14: convertValue(v, C, C) = v for every value v and each currency C,
\* whatever the exchange rate is, 0 included.
C14_ConvertIdentity ==
    conv.from = conv.to => conv.result = conv.val

C14_Witness ==
    /\ conv.from = "USD" /\ conv.to = "USD" /\ conv.val = 5 /\ conv.result = 5
    /\ data.settings.usdToCopRate = 0

\* C15: for from # to, a convertValue call returns val * usdToCopRate for
\* USD -> COP and val / usdToCopRate for COP -> USD, with the rate that
\* settings hold when the call is made.
C15_ConvertUsesCurrentRate ==
    [][conv' # conv =>
          /\ (conv'.from = "USD" /\ conv'.to = "COP") =>
                 conv'.result = conv'.val * data.settings.usdToCopRate
          /\ (conv'.from = "COP" /\ conv'.to = "USD") =>
                 conv'.result = Quot(conv'.val, data.settings.usdToCopRate)]_vars

C15_Witness ==
    /\ conv.from = "USD" /\ conv.to = "COP" /\ conv.val = 5 /\ conv.result = 15
    /\ data.settings.usdToCopRate = 3

(***************************************************************************)
(* Claims about the provider's handlers (SpecProvider).                    *)
(***************************************************************************)
\* The requests sent by the step.
Sent(kind) == {req \in inflight' \ inflight : req.kind = kind}

\* C11: deleteGroup(id) removes the group with that id and no other; every
\* account of local state stays, in place, with its id, balance, type,
\* currency and credit limit; the accounts that referenced the group get
\* groupId null, the others keep theirs; the transactions are unchanged.
C11_DeleteGroupFrame ==
    [][\A req \in Sent("deleteGroup") :
          /\ data'.groups = SelectSeq(data.groups, LAMBDA g : g.id # req.id)
          /\ Len(data'.accounts) = Len(data.accounts)
          /\ \A k \in 1..Len(data.accounts) :
                /\ data'.accounts[k].id = data.accounts[k].id
                /\ data'.accounts[k].balance = data.accounts[k].balance
                /\ data'.accounts[k].type = data.accounts[k].type
                /\ data'.accounts[k].currency = data.accounts[k].currency
                /\ data'.accounts[k].creditLimit = data.accounts[k].creditLimit
                /\ data'.accounts[k].groupId =
                      IF data.accounts[k].groupId = req.id THEN "null"
                      ELSE data.accounts[k].groupId
          /\ data'.transactions = data.transactions]_vars

\* deleteGroup("g1") has run: its member is detached, the account of g2
\* keeps its group, the transaction is there.
C11_Witness ==
    /\ \E req \in inflight : req.kind = "deleteGroup" /\ req.id = "g1"
    /\ Len(data.groups) = 1 /\ data.groups[1].id = "g2"
    /\ Len(data.accounts) = 2
    /\ data.accounts[1].groupId = "null"
    /\ data.accounts[2].groupId = "g2"
    /\ Len(data.transactions) = 1

\* C13: when a fetchUSDRate call fails (exception, non-success result or
\* missing COP rate) the rate in settings, the accounts, the groups and the
\* transactions are as before, the call returns (no exception reaches the
\* caller), and what the interval depends on is untouched, so a later tick
\* can still update the rate.
C13_RateFetchFailure ==
    [][(Len(rateFetch'.outcomes) > Len(rateFetch.outcomes)
          /\ rateFetch'.outcomes[Len(rateFetch'.outcomes)] = "failed") =>
          /\ data' = data
          /\ rateFetch'.pending = rateFetch.pending - 1
          /\ rateFetch'.calls = rateFetch.calls
          /\ user' = user
          /\ store' = store]_vars

\* A call failed, leaving the rate, and the next one updated it.
C13_Witness ==
    /\ rateFetch.outcomes = <<"failed", "updated">>
    /\ rateFetch.pending = 0
    /\ data.settings.usdToCopRate = 3
    /\ Len(data.accounts) = 2
    /\ Len(data.transactions) = 1

\* C20: a transaction present in local state stays present, with the same
\* fields, after every step, except a deleteAccount of its owning account,
\* which removes the transactions of that account and no others.
C20_TransactionsAppendOnly ==
    [][/\ \A k \in 1..Len(data.transactions) :
             \/ \E req \in Sent("deleteTransactions") :
                   req.id = data.transactions[k].accountId
             \/ \E j \in 1..Len(data'.transactions) :
                   data'.transactions[j] = data.transactions[k]
       /\ \A req \in Sent("deleteTransactions") :
             \A j \in 1..Len(data'.transactions) :
                data'.transactions[j].accountId # req.id]_vars

(***************************************************************************)
(* Claims about the pages over the provider (SpecRender).                  *)
(***************************************************************************)
RECURSIVE chartRun(_)
chartRun(c) ==
    IF c.i >= c.diffDays THEN c.points
    ELSE IF whileCond(c) THEN chartRun(whileBody(c))
    ELSE chartRun(unshiftPoint(c))

\* C12: once a change of the accounts, the transactions, the exchange rate
\* or the selected scope or window has been rendered, every displayed
\* metric (valuation, history series, performance stats) is the value
\* computed from the current inputs; a change of the rate alone shows in
\* the performance stats of USD accounts.
C12_DisplayedIsCurrent ==
    /\ view.pc = "shown" => view.metrics = metrics
    /\ chart.pc = "done" => chart.points = chartRun(chartStart)
    /\ perf.pc = "shown" => perf.stats = stats

(***************************************************************************)
(* Further claims about the currency converter (SpecConvert).              *)
(***************************************************************************)
\* C23: no convertValue call divides by zero: a COP -> USD conversion made
\* while the exchange rate is 0 yields 0, not a quotient by 0.
C23_ZeroRateGivesZero ==
    (conv.from = "COP" /\ conv.to = "USD") => conv.result.den # 0

(***************************************************************************)
(* Further claims about the history reconstruction (SpecHistory).          *)
(***************************************************************************)
\* What a transaction changed in its account's balance, in COP: the raw
\* amount for a COP account, the amount at the recorded rate otherwise.
BalanceChangeCOP(tx) ==
    LET acc == findAccount(data.accounts, tx.accountId)
    IN IF acc # <<>> /\ acc[1].currency = "COP" THEN tx.amount ELSE amountCOP(tx)

RECURSIVE SumBalanceChanges(_, _)
SumBalanceChanges(txs, credit) ==
    IF txs = <<>> THEN 0
    ELSE (IF isCreditTx(Head(txs)) = credit THEN BalanceChangeCOP(Head(txs)) ELSE 0)
         + SumBalanceChanges(Tail(txs), credit)

\* C24: reverse replay recovers the earlier valuation.  When every
\* transaction belongs to a present account and is dated on or after the
\* first day of the history, the first point has the liquidity and the
\* liabilities of before those transactions: the current totals less what
\* each transaction changed, which for a COP account is its raw amount.
C24_ReplayRecoversEarlierValuation ==
    (chart.pc = "done" /\ LedgerAsFetched
       /\ \A k \in 1..Len(data.transactions) : data.transactions[k].date >= FirstDayStart) =>
        /\ chart.points[1].liquidity =
               metrics.liquidity - SumBalanceChanges(data.transactions, FALSE)
        /\ chart.points[1].liquidity - chart.points[1].netWorth =
               metrics.totalLiabilities - SumBalanceChanges(data.transactions, TRUE)

(***************************************************************************)
(* Further claims about the performance computation (SpecPerformance).     *)
(***************************************************************************)
\* The net worth the history's reverse replay reaches after every
\* transaction: liquidity less the amounts of non-CREDIT accounts, minus
\* liabilities less the amounts of CREDIT accounts.
ReplayedNetWorth ==
    (metrics.liquidity - SumAmounts(data.transactions, FALSE))
    - (metrics.totalLiabilities - SumAmounts(data.transactions, TRUE))

\* C25: with all accounts in scope and a window that contains every
\* transaction, the startVal of the performance stats is the net worth the
\* history's reverse replay of the same transactions reaches, also when
\* transactions belong to CREDIT accounts.
C25_StartValIsReplayedNetWorth ==
    (perf.pc = "shown" /\ perf.stats.inferred
       /\ (perf.dimension = "GENERAL" \/ perf.filterId = "ALL")
       /\ \A k \in 1..Len(data.transactions) :
             /\ findAccount(data.accounts, data.transactions[k].accountId) # <<>>
             /\ getTime(data.transactions[k]) >= startDateOf(perf.timeRange)) =>
        perf.stats.startVal = ReplayedNetWorth

(***************************************************************************)
(* Further claims about the provider's handlers (SpecProvider).            *)
(***************************************************************************)
\* C26: whatever the interleaving of the optimistic updates, the store's
\* answers and the three reads of a refreshData, every transaction held in
\* local state refers to an account held in local state.
C26_NoOrphanTransaction ==
    \A k \in 1..Len(data.transactions) :
        findAccount(data.accounts, data.transactions[k].accountId) # <<>>

LocalAccountsView == {<<data.accounts[k].id, data.accounts[k].balance, data.accounts[k].groupId>> :
                         k \in 1..Len(data.accounts)}
StoreAccountsView == {<<store.accounts[k].id, store.accounts[k].balance, store.accounts[k].group_id>> :
                         k \in 1..Len(store.accounts)}
LocalGroupIds == {data.groups[k].id : k \in 1..Len(data.groups)}
StoreGroupIds == {store.groups[k].id : k \in 1..Len(store.groups)}
LocalTxIds == {data.transactions[k].id :
                  k \in {j \in 1..Len(data.transactions) :
                            getTime(data.transactions[j]) >= PROJECT_START_DATE}}
StoreTxIds == {store.transactions[k].id :
                  k \in {j \in 1..Len(store.transactions) :
                            store.transactions[j].date >= PROJECT_START_DATE}}

\* C28: once every store call has answered and no refreshData is running,
\* local state equals the store: the same accounts with the same balances
\* and group references, the same groups, the same transactions dated from
\* the project start on.
C28_LocalConvergesToStore ==
    AtRest =>
        /\ LocalAccountsView = StoreAccountsView
        /\ LocalGroupIds = StoreGroupIds
        /\ LocalTxIds = StoreTxIds

MaxLogins == 2
LoginRefreshIds == <<"login2", "login3", "login4">>

\* authContext.logout: setUser(null); the user effect then resets the data.
logout ==
    /\ user.loggedIn
    /\ user' = [user EXCEPT !.loggedIn = FALSE]
    /\ data' = INITIAL_DATA
    /\ Rerender(TRUE)
    /\ UNCHANGED <<store, inflight, refreshes, applied, ids, premiumModalOpen, rateFetch>>

\* authContext.login: setUser(user); the user effect then calls
\* refreshData() and fetchUSDRate().
login ==
    /\ ~user.loggedIn
    /\ ids.ops < MaxLogins
    /\ rateFetch.calls < MaxRateCalls
    /\ user' = [user EXCEPT !.loggedIn = TRUE]
    /\ refreshes' = refreshes \cup {newRefresh(LoginRefreshIds[ids.ops + 1])}
    /\ rateFetch' = [rateFetch EXCEPT !.calls = @ + 1, !.pending = @ + 1]
    /\ ids' = [ids EXCEPT !.ops = @ + 1]
    /\ UNCHANGED <<data, store, inflight, applied, premiumModalOpen, memoVars>>

NextSession ==
    \/ logout
    \/ login
    \/ \E r \in refreshes : FetchGroups(r)
    \/ \E r \in refreshes : FetchAccounts(r)
    \/ \E r \in refreshes : FetchTransactions(r)
    \/ \E r \in refreshes : refreshData(r)
    \/ fetchUSDRate
    \/ \E ans \in RenderRateAnswers : fetchUSDRateAnswer(ans)

SpecSession == Init /\ [][NextSession]_vars

(***************************************************************************)
(* Claims about the session (SpecSession).                                 *)
(***************************************************************************)
\* C27: while no user is logged in (the reset effect has run), local data
\* holds no account, no group and no transaction, also when a refreshData
\* started before the logout completes after it.
C27_LoggedOutDataEmpty ==
    ~user.loggedIn =>
        data.accounts = <<>> /\ data.groups = <<>> /\ data.transactions = <<>>

(***************************************************************************)
(* SpecLimits: a free user creates accounts and groups from the login on,  *)
(* while the refreshData of the login and those of the creations run.      *)
(***************************************************************************)
NextLimits ==
    \/ \E j \in 1..MaxAccounts : \E acc \in HistoryAccountDomain(IdSeq[j]) : addAccount(acc)
    \/ \E j \in 1..MaxGroups : addGroup(Group(GroupIdSeq[j]))
    \/ \E req \in inflight : ApiCreateAccount(req)
    \/ \E req \in inflight : ApiCreateGroup(req)
    \/ \E r \in refreshes : FetchGroups(r)
    \/ \E r \in refreshes : FetchAccounts(r)
    \/ \E r \in refreshes : FetchTransactions(r)
    \/ \E r \in refreshes : refreshData(r)

SpecLimits == Init /\ [][NextLimits]_vars

(***************************************************************************)
(* Claims about the free plan's limits (SpecLimits).                       *)
(***************************************************************************)
\* C30: for a user who is not premium, local state never holds more than
\* MAX_FREE_ACCOUNTS accounts or more than MAX_FREE_GROUPS groups, whatever
\* sequence of addAccount and addGroup calls was made.
C30_FreeLimitsHold ==
    ~user.isPremium =>
        /\ Len(data.accounts) <= MAX_FREE_ACCOUNTS
        /\ Len(data.groups) <= MAX_FREE_GROUPS

(***************************************************************************)
(* Display order of the AccountsPage.  A sortOrder is a JavaScript value:  *)
(* a number, undefined (also what a record without the property yields),   *)
(* or NaN.  createAccount and createGroup write no sort order to the store *)
(* and fetchAll maps none back, so records that come from a refreshData    *)
(* have no sortOrder.                                                       *)
(***************************************************************************)
Num(n) == [t |-> "number", n |-> n]
undefinedValue == [t |-> "undefined", n |-> 0]
NaN == [t |-> "NaN", n |-> 0]

sortOrderOf(x) == IF "sortOrder" \in DOMAIN x THEN x.sortOrder ELSE undefinedValue

\* a - b on JavaScript values: undefined converts to NaN.
minus(a, b) == IF a.t = "number" /\ b.t = "number" THEN Num(a.n - b.n) ELSE NaN

\* a === b
strictEquals(a, b) == a.t # "NaN" /\ a = b

\* What Array.prototype.sort makes of a comparator's result: NaN counts as 0.
signOf(v) ==
    IF v.t # "number" THEN 0 ELSE IF v.n < 0 THEN -1 ELSE IF v.n > 0 THEN 1 ELSE 0

\* createdAt: new Date().toISOString() at creation; the k-th account
\* created carries the k-th id, and created_at survives the store.
createdAtOf(a) == CHOOSE k \in 1..Len(IdSeq) : IdSeq[k] = a.id

localeCompare(a, b) == IF a < b THEN -1 ELSE IF a > b THEN 1 ELSE 0

\* a.sortOrder - b.sortOrder || a.createdAt.localeCompare(b.createdAt)
compareSiblings(a, b) ==
    LET d == minus(sortOrderOf(a), sortOrderOf(b))
    IN IF d.t = "number" /\ d.n # 0 THEN signOf(d)
       ELSE localeCompare(createdAtOf(a), createdAtOf(b))

\* a.sortOrder - b.sortOrder
compareDisplay(a, b) == signOf(minus(sortOrderOf(a), sortOrderOf(b)))

RECURSIVE insertSibling(_, _)
insertSibling(s, x) ==
    IF s = <<>> THEN <<x>>
    ELSE IF compareSiblings(s[Len(s)], x) > 0
         THEN insertSibling(SubSeq(s, 1, Len(s) - 1), x) \o <<s[Len(s)]>>
         ELSE s \o <<x>>

RECURSIVE sortSiblings(_, _)
sortSiblings(sorted, xs) ==
    IF xs = <<>> THEN sorted ELSE sortSiblings(insertSibling(sorted, Head(xs)), Tail(xs))

RECURSIVE insertDisplay(_, _)
insertDisplay(s, x) ==
    IF s = <<>> THEN <<x>>
    ELSE IF compareDisplay(s[Len(s)], x) > 0
         THEN insertDisplay(SubSeq(s, 1, Len(s) - 1), x) \o <<s[Len(s)]>>
         ELSE s \o <<x>>

RECURSIVE sortDisplay(_, _)
sortDisplay(sorted, xs) ==
    IF xs = <<>> THEN sorted ELSE sortDisplay(insertDisplay(sorted, Head(xs)), Tail(xs))

\* The accounts of one scope (a group, or "null" for the ungrouped ones) in
\* the order the page lists them.
displayedAccounts(p, groupId) ==
    sortDisplay(<<>>, SelectSeq(p.accounts, LAMBDA a : a.groupId = groupId))

indexOfId(s, id) ==
    IF \E k \in 1..Len(s) : s[k].id = id
    THEN CHOOSE k \in 1..Len(s) : s[k].id = id /\ \A j \in 1..(k - 1) : s[j].id # id
    ELSE 0

\* newOrderSelf of handleMoveAccount and handleMoveGroup
newOrderSelfOf(self, other, direction) ==
    IF strictEquals(sortOrderOf(other), sortOrderOf(self))
    THEN minus(sortOrderOf(self), Num(IF direction = "up" THEN 1 ELSE -1))
    ELSE sortOrderOf(other)

\* The state handleMoveAccount(id, direction) sets, data itself when the
\* handler returns without setData.
movedAccounts(p, id, direction) ==
    LET found == findAccount(p.accounts, id)
    IN IF found = <<>> THEN p
       ELSE LET acc == found[1]
                siblings == sortSiblings(<<>>, SelectSeq(p.accounts,
                                                LAMBDA a : a.groupId = acc.groupId))
                index == indexOfId(siblings, id)
                targetIndex == IF direction = "up" THEN index - 1 ELSE index + 1
            IN IF targetIndex >= 1 /\ targetIndex <= Len(siblings)
               THEN LET other == siblings[targetIndex]
                        newOrderSelf == newOrderSelfOf(acc, other, direction)
                        newOrderOther == sortOrderOf(acc)
                    IN [p EXCEPT !.accounts =
                          [k \in 1..Len(@) |->
                              IF @[k].id = id THEN [sortOrder |-> newOrderSelf] @@ @[k]
                              ELSE IF @[k].id = other.id
                                   THEN [sortOrder |-> newOrderOther] @@ @[k]
                                   ELSE @[k]]]
               ELSE p

\* api.data.updateAccount maps no sortOrder: the two updates the handler
\* awaits write nothing to the store.
handleMoveAccount(id, direction) ==
    /\ movedAccounts(data, id, direction) # data
    /\ data' = movedAccounts(data, id, direction)
    /\ Rerender(TRUE)
    /\ UNCHANGED appVars

\* The ids are random UUIDs; here an id issued later compares greater.
groupIdRank(g) == CHOOSE k \in 1..Len(GroupIdSeq) : GroupIdSeq[k] = g.id

\* a.sortOrder - b.sortOrder || a.id.localeCompare(b.id)
compareGroups(a, b) ==
    LET d == minus(sortOrderOf(a), sortOrderOf(b))
    IN IF d.t = "number" /\ d.n # 0 THEN signOf(d)
       ELSE localeCompare(groupIdRank(a), groupIdRank(b))

RECURSIVE insertGroup(_, _)
insertGroup(s, x) ==
    IF s = <<>> THEN <<x>>
    ELSE IF compareGroups(s[Len(s)], x) > 0
         THEN insertGroup(SubSeq(s, 1, Len(s) - 1), x) \o <<s[Len(s)]>>
         ELSE s \o <<x>>

RECURSIVE sortGroups(_, _)
sortGroups(sorted, xs) ==
    IF xs = <<>> THEN sorted ELSE sortGroups(insertGroup(sorted, Head(xs)), Tail(xs))

\* The groups in the order the page lists them.
displayedGroups(p) == sortDisplay(<<>>, p.groups)

\* The state handleMoveGroup(id, direction) sets, data itself when the
\* handler returns without setData.
movedGroups(p, id, direction) ==
    LET siblings == sortGroups(<<>>, p.groups)
        index == indexOfId(siblings, id)
        targetIndex == IF direction = "up" THEN index - 1 ELSE index + 1
    IN IF index >= 1 /\ targetIndex >= 1 /\ targetIndex <= Len(siblings)
       THEN LET g == siblings[index]
                other == siblings[targetIndex]
                newOrderSelf == newOrderSelfOf(g, other, direction)
                newOrderOther == sortOrderOf(g)
            IN [p EXCEPT !.groups =
                  [k \in 1..Len(@) |->
                      IF @[k].id = id THEN [sortOrder |-> newOrderSelf] @@ @[k]
                      ELSE IF @[k].id = other.id
                           THEN [sortOrder |-> newOrderOther] @@ @[k]
                           ELSE @[k]]]
       ELSE p

\* api.data has no updateGroup: the handler's `await Promise.all` throws
\* after setData and nothing reaches the store.
handleMoveGroup(id, direction) ==
    /\ movedGroups(data, id, direction) # data
    /\ data' = movedGroups(data, id, direction)
    /\ Rerender(TRUE)
    /\ UNCHANGED appVars

\* handleCreateAccount: the record it passes to addAccount.
newAccountOf(id, groupId, type, currency) ==
    [sortOrder |-> Num(0)] @@
    [Account(id, type, currency, 2, IF type = "CREDIT" THEN 10 ELSE Undefined)
        EXCEPT !.groupId = groupId]

(***************************************************************************)
(* SpecOrder: a premium user whose two groups were loaded at login creates *)
(* accounts and moves accounts and groups up and down, while the           *)
(* refreshData calls of the creations run.                                 *)
(***************************************************************************)
Directions == {"up", "down"}
OrderScopes == {"null", "g1"}

InitOrder ==
    /\ now = dateOfDay(1)
    /\ tz = 0
    /\ view = viewStale
    /\ chart = chartIdle
    /\ perf = perfIdle
    /\ conv = convIdle
    /\ user = [loggedIn |-> TRUE, isPremium |-> TRUE]
    /\ store = [accounts |-> <<>>,
                groups |-> <<rowOfGroup(Group("g1")), rowOfGroup(Group("g2"))>>,
                transactions |-> <<>>]
    /\ data = refreshedData(INITIAL_DATA,
                            [rid |-> "login", groups |-> <<store.groups>>,
                             accounts |-> <<store.accounts>>,
                             transactions |-> <<store.transactions>>])
    /\ inflight = {}
    /\ refreshes = {}
    /\ applied = <<>>
    /\ ids = [acc |-> 1, tx |-> 1, grp |-> 3, ops |-> 0]
    /\ premiumModalOpen = FALSE
    /\ rateFetch = rateFetchIdle

NextOrder ==
    \/ \E j \in 1..MaxAccounts, groupId \in OrderScopes :
          addAccount(newAccountOf(IdSeq[j], groupId, "DEBIT", "COP"))
    \/ \E j \in 1..MaxAccounts, direction \in Directions :
          handleMoveAccount(IdSeq[j], direction)
    \/ \E j \in 1..MaxGroups, direction \in Directions :
          handleMoveGroup(GroupIdSeq[j], direction)
    \/ \E req \in inflight : ApiCreateAccount(req)
    \/ \E r \in refreshes : FetchGroups(r)
    \/ \E r \in refreshes : FetchAccounts(r)
    \/ \E r \in refreshes : FetchTransactions(r)
    \/ \E r \in refreshes : refreshData(r)

SpecOrder == InitOrder /\ [][NextOrder]_vars

(***************************************************************************)
(* Claims about the display order (SpecOrder).                             *)
(***************************************************************************)
AccountsDistinctlyOrdered ==
    \A j, k \in 1..Len(data.accounts) :
        (j # k /\ data.accounts[j].groupId = data.accounts[k].groupId) =>
            sortOrderOf(data.accounts[j]) # sortOrderOf(data.accounts[k])

GroupsDistinctlyOrdered ==
    \A j, k \in 1..Len(data.groups) :
        j # k => sortOrderOf(data.groups[j]) # sortOrderOf(data.groups[k])

\* C21: in every reachable state the accounts of one scope (one group, or
\* the ungrouped ones) have pairwise distinct sortOrder values and so have
\* the groups, after creations and after moves.
C21_SortOrdersDistinct ==
    AccountsDistinctlyOrdered /\ GroupsDistinctlyOrdered

idsOf(s) == [k \in 1..Len(s) |-> s[k].id]

\* s with the elements at i and j exchanged
swapped(s, i, j) ==
    [k \in 1..Len(s) |-> IF k = i THEN s[j] ELSE IF k = j THEN s[i] ELSE s[k]]

\* What a move of the item id has to make of the displayed order before:
\* id and its neighbour exchanged, or no change at the first or last place.
expectedOrder(before, id, direction) ==
    LET i == indexOfId(before, id)
        j == IF direction = "up" THEN i - 1 ELSE i + 1
    IN IF i >= 1 /\ j >= 1 /\ j <= Len(before)
       THEN idsOf(swapped(before, i, j))
       ELSE idsOf(before)

AccountMovesExchange ==
    \A k \in 1..Len(data.accounts), direction \in Directions :
        LET acc == data.accounts[k]
            after == movedAccounts(data, acc.id, direction)
        IN \A groupId \in OrderScopes \cup {"g2"} :
              idsOf(displayedAccounts(after, groupId)) =
                 IF groupId = acc.groupId
                 THEN expectedOrder(displayedAccounts(data, groupId), acc.id, direction)
                 ELSE idsOf(displayedAccounts(data, groupId))

GroupMovesExchange ==
    \A k \in 1..Len(data.groups), direction \in Directions :
        idsOf(displayedGroups(movedGroups(data, data.groups[k].id, direction))) =
            expectedOrder(displayedGroups(data), data.groups[k].id, direction)

\* C22: in every reachable state, a move of an account or of a group up or
\* down exchanges it with the adjacent sibling in display order and leaves
\* every other position and every other scope as it was; at the first or
\* last position it changes no position.  Siblings may carry equal
\* sortOrder values.
C22_MoveExchangesAdjacent ==
    AccountMovesExchange /\ GroupMovesExchange

====
